---- MODULE Spec2Model ----
(***************************************************************************)
(* Sphere: the chat turn (ChatModule / AIEngine), the document pipeline    *)
(* (KnowledgeModule / VectorDB) and the request builder, as state machines.*)
(*                                                                         *)
(* UI handlers are atomic actions.  A coroutine started with               *)
(* page.run_task is split at its await points: _get_ai_response has one    *)
(* (AIEngine.chat awaits provider.chat), _process_document has none.       *)
(***************************************************************************)
EXTENDS Integers, Sequences, FiniteSets, TLC

VARIABLES
    \* ---- chat ----
    current_session,       \* ChatModule.current_session
    conversation_history,  \* AIEngine.conversation_history
    chat_history,          \* table chat_history, in insertion (rowid) order
    layout_messages,       \* ChatLayout.messages_list.controls
    typing_visible,        \* ChatLayout.typing_indicator.visible
    sessions_options,      \* ChatLayout.sessions_dropdown.options
    ai_tasks,              \* _get_ai_response coroutines started and not finished
    turn_count,            \* number of sends so far (labels the turns)
    \* ---- knowledge base ----
    knowledge_dir,         \* files under KNOWLEDGE_DIR: name -> text
    knowledge_documents,   \* table knowledge_documents: id -> row
    next_doc_id,           \* the next AUTOINCREMENT id of knowledge_documents
    collection,            \* the ChromaDB collection: the chunks in the index
    collection_available,  \* VectorDB.is_available
    process_tasks,         \* _process_document coroutines started and not yet run
    last_delete,           \* the calls _on_delete made, in order, when it was the last
                           \* handler to run
    fault_seen,            \* some call to a collaborator has raised in this run
    \* ---- AIEngine.chat seen alone ----
    messages,              \* the request _build_messages built last
    chat_pending,          \* the message of the AIEngine.chat call awaiting its provider
    \* ---- ChatModule._gather_context seen alone ----
    gather_in,             \* the arguments and the stores of the last call
    gather_out,            \* what the last call returned and the calls it made
    \* ---- configuration and providers ----
    config_ai,             \* config.ai: provider and deepseek_api_key
    providers,             \* AIEngine.providers of the current engine, in insertion order
    task_call,             \* turn -> the provider its AIEngine.chat call got from
                           \* get_provider and what the backend does with the call
    backend_calls,         \* the network calls attempted: turn and backend
    \* ---- AIEngine.chat_stream seen alone ----
    stream,                \* the generator of the last chat_stream call
    \* ---- KnowledgeModule._split_text seen alone ----
    split_in,              \* the arguments of the call: words of the text, chunk_size, overlap
    split_out,             \* the chunks the call returned
    \* ---- KnowledgeModule: questions ----
    ask_pending,           \* the prompt of the _answer_question awaiting AIEngine.chat
    layout_answer          \* KnowledgeLayout: the answer shown

chat_vars == <<current_session, conversation_history, chat_history, layout_messages,
               typing_visible, sessions_options, ai_tasks, turn_count>>

knowledge_vars == <<knowledge_dir, knowledge_documents, next_doc_id, collection,
                    collection_available, process_tasks, last_delete, fault_seen>>

engine_vars == <<messages, chat_pending>>

context_vars == <<gather_in, gather_out>>

provider_vars == <<config_ai, providers, task_call, backend_calls>>

stream_vars == <<stream>>

split_vars == <<split_in, split_out>>

ask_vars == <<ask_pending, layout_answer>>

vars == <<chat_vars, knowledge_vars, engine_vars, context_vars, provider_vars, stream_vars,
          split_vars, ask_vars>>

-----------------------------------------------------------------------------
(* Bounds *)

MaxTurns == 2

MaxDocs == 2

MaxHistoryLen == 24

MaxStoredTurns == 26

MaxItems == 6

MaxFragments == 3

MaxStreams == 2
\* the longest text split alone, in words
MaxWords == 8
\* the largest chunk_size tried when _split_text is seen alone
MaxChunkSize == 5
\* the number of knowledge-base questions asked
MaxQuestions == 2

(* Program constants *)

\* Database.get_chat_history(limit=50)
HistoryLimit == 50

\* Database.get_documents(limit=100)
DocumentsLimit == 100

\* _split_text(text, chunk_size=500, overlap=50) in _process_document
ChunkSize == 500

Overlap == 50

\* summary = text[:500] + "..."
SummaryLimit == 500

\* max_history = 20 in AIEngine._build_messages
max_history == 20

\* get_tasks(status="todo", limit=5), get_events(start_from=today, limit=5)
ContextLimit == 5

\* len(user_message.strip()) >= 2
MinQueryLen == 2

-----------------------------------------------------------------------------
(* Helpers on sequences *)

Last(s) == s[Len(s)]

FirstN(s, n) == SubSeq(s, 1, IF Len(s) < n THEN Len(s) ELSE n)

LastN(s, n) == SubSeq(s, IF Len(s) > n THEN Len(s) - n + 1 ELSE 1, Len(s))

Contains(s, x) == \E i \in 1..Len(s) : s[i] = x

-----------------------------------------------------------------------------
(* Texts *)

\* what the user may type into the input field or pass to send_message
RawInputs == {"", "  ", "hi", " hi "}

\* str.strip()
Strip(raw) ==
    CASE raw = ""     -> ""
      [] raw = "  "   -> ""
      [] raw = "hi"   -> "hi"
      [] raw = " hi " -> "hi"

\* what provider.chat returns: an answer, or an error text in band
ResponseTexts == {"answer", "Ollama connection error"}

\* err_msg of _get_ai_response's except branch
ErrMsg == "An error occurred"

DefaultSession == "default"

DateStr == "06.11.2026"

\* a session id of another day
OtherDay == "05.11.2026"

-----------------------------------------------------------------------------
(* Database: chat_history *)

\* a row of chat_history; turn labels the send the row belongs to and is read
\* by no action
ChatRow(session_id, role, content, provider, turn) ==
    [session_id |-> session_id, role |-> role, content |-> content,
     provider |-> provider, turn |-> turn]

\* Database.add_chat_message: INSERT INTO chat_history
add_chat_message(table, role, content, session_id, provider, turn) ==
    Append(table, ChatRow(session_id, role, content, provider, turn))

\* Database.get_chat_history: WHERE session_id = ? ORDER BY created_at ASC LIMIT 50
get_chat_history(table, session_id) ==
    FirstN(SelectSeq(table, LAMBDA r : r.session_id = session_id), HistoryLimit)

\* Database.get_chat_sessions: GROUP BY session_id ORDER BY MAX(created_at) DESC
RECURSIVE SessionsByRecency(_, _)
SessionsByRecency(table, seen) ==
    IF table = <<>> THEN <<>>
    ELSE LET r == Last(table)
             rest == SubSeq(table, 1, Len(table) - 1)
         IN IF r.session_id \in seen
            THEN SessionsByRecency(rest, seen)
            ELSE <<r.session_id>> \o SessionsByRecency(rest, seen \cup {r.session_id})

get_chat_sessions(table) == SessionsByRecency(table, {})

-----------------------------------------------------------------------------
(* AIEngine: the in-memory history *)

HistoryEntry(role, content) == [role |-> role, content |-> content]

\* AIEngine.load_history
load_history(rows) == [i \in 1..Len(rows) |-> HistoryEntry(rows[i].role, rows[i].content)]

\* AIEngine.chat, after provider.chat has returned: the two appends
chat_appends(history, message, response) ==
    history \o <<HistoryEntry("user", message), HistoryEntry("assistant", response)>>

\* AIEngine.current_provider: config.ai.provider (default "ollama")
current_provider == config_ai.provider

-----------------------------------------------------------------------------
(* ChatModule *)

\* f"{date_str}" and f"{date_str}.{next_num}"
SessionName(n) == IF n = -1 THEN DateStr ELSE DateStr \o "." \o ToString(n)

\* the numeric suffixes _generate_session_id can meet
Suffixes == 0..(MaxTurns + 1)

\* the number _generate_session_id gives a session of today: -1 for the bare
\* date, int(suffix) for date.N
IsToday(s) == s = DateStr \/ \E n \in Suffixes : s = SessionName(n)

TodayNumber(s) ==
    IF s = DateStr THEN -1 ELSE CHOOSE n \in Suffixes : s = SessionName(n)

SetMax(S) == CHOOSE m \in S : \A x \in S : x <= m

\* _generate_session_id numbering by the count of today's sessions, not their maximum
_generate_session_id_by_count(table) ==
    LET sessions == get_chat_sessions(table)
        today_sessions == {s \in {sessions[i] : i \in 1..Len(sessions)} : IsToday(s)}
    IN IF today_sessions = {} THEN DateStr
       ELSE SessionName(Cardinality(today_sessions) - 1)

\* ChatModule._generate_session_id
_generate_session_id(table) ==
    LET sessions == get_chat_sessions(table)
        today_sessions == {s \in {sessions[i] : i \in 1..Len(sessions)} : IsToday(s)}
        numbers == {TodayNumber(s) : s \in today_sessions}
    IN IF today_sessions = {} THEN DateStr
       ELSE SessionName(SetMax(numbers) + 1)

\* ChatModule._load_sessions: the dropdown's options
_load_sessions(table) ==
    LET sessions == get_chat_sessions(table)
    IN IF \E i \in 1..Len(sessions) : sessions[i] = DefaultSession
       THEN sessions
       ELSE <<DefaultSession>> \o sessions

\* a started _get_ai_response(message, session_id): pc is "scheduled" until the
\* coroutine runs, "awaiting" while it waits in provider.chat
AiTask(turn, message, session_id, pc) ==
    [turn |-> turn, message |-> message, session_id |-> session_id, pc |-> pc]

\* ChatLayout._handle_send / ChatModule.send_message: strip, drop empty input;
\* then ChatModule._on_send_message.  db_ok: the INSERT of the user row succeeds
\* (when it raises, the handler ends there)
_on_send_message(raw, db_ok) ==
    LET message == Strip(raw)
    IN /\ message # ""
       /\ turn_count < MaxTurns
       /\ turn_count' = turn_count + 1
       /\ layout_messages' = Append(layout_messages, HistoryEntry("user", message))
       /\ IF db_ok
          THEN /\ chat_history' = add_chat_message(chat_history, "user", message,
                                                   current_session, "ollama", turn_count + 1)
               /\ typing_visible' = TRUE
               /\ ai_tasks' = ai_tasks \cup
                     {AiTask(turn_count + 1, message, current_session, "scheduled")}
          ELSE UNCHANGED <<chat_history, typing_visible, ai_tasks>>
       /\ UNCHANGED <<current_session, conversation_history, sessions_options, knowledge_vars, engine_vars, context_vars, split_vars, ask_vars, provider_vars, stream_vars>>

\* _get_ai_response's except branch, entered with the layout as it is then.
\* db_ok: the INSERT of the error row succeeds (when it raises, the exception
\* leaves the coroutine)
ExceptBranch(t, layout, table, db_ok) ==
    /\ typing_visible' = FALSE
    /\ layout_messages' =
          IF current_session = t.session_id
          THEN Append(layout, HistoryEntry("assistant", ErrMsg))
          ELSE layout
    /\ chat_history' =
          IF db_ok
          THEN add_chat_message(table, "assistant", ErrMsg, t.session_id, "ollama", t.turn)
          ELSE table

\* _get_ai_response up to its await: _gather_context, AIEngine._build_messages,
\* provider.chat called.  raises: building the context or the request raises
\* inside the try block
GetAIResponseStart(t, raises, db_ok) ==
    /\ t \in ai_tasks
    /\ t.pc = "scheduled"
    /\ IF raises
       THEN /\ ExceptBranch(t, layout_messages, chat_history, db_ok)
            /\ ai_tasks' = ai_tasks \ {t}
       ELSE /\ ai_tasks' = (ai_tasks \ {t}) \cup
                              {AiTask(t.turn, t.message, t.session_id, "awaiting")}
            /\ UNCHANGED <<typing_visible, layout_messages, chat_history>>
    /\ UNCHANGED <<current_session, conversation_history, sessions_options, turn_count, knowledge_vars, engine_vars, context_vars, split_vars, ask_vars, provider_vars, stream_vars>>

\* _get_ai_response persisting the response under the session current at the
\* time of the write, not the one of the request
GetAIResponseFinish_current(t, response, db_ok, err_ok) ==
    /\ t \in ai_tasks
    /\ t.pc = "awaiting"
    /\ conversation_history' = chat_appends(conversation_history, t.message, response)
    /\ typing_visible' = FALSE
    /\ layout_messages' = Append(layout_messages, HistoryEntry("assistant", response))
    /\ chat_history' = add_chat_message(chat_history, "assistant", response,
                                        current_session, current_provider, t.turn)
    /\ ai_tasks' = ai_tasks \ {t}
    /\ UNCHANGED <<current_session, sessions_options, turn_count, knowledge_vars, engine_vars,
                   context_vars, split_vars, ask_vars, provider_vars, stream_vars>>

\* _get_ai_response from the return of provider.chat to its end.  db_ok: the
\* INSERT of the assistant row succeeds; err_ok: the INSERT in the except branch
GetAIResponseFinish(t, response, db_ok, err_ok) ==
    /\ t \in ai_tasks
    /\ t.pc = "awaiting"
    /\ conversation_history' = chat_appends(conversation_history, t.message, response)
    /\ LET shown == IF current_session = t.session_id
                    THEN Append(layout_messages, HistoryEntry("assistant", response))
                    ELSE layout_messages
       IN IF db_ok
          THEN /\ typing_visible' = FALSE
               /\ layout_messages' = shown
               /\ chat_history' = add_chat_message(chat_history, "assistant", response,
                                                   t.session_id, current_provider, t.turn)
          ELSE ExceptBranch(t, shown, chat_history, err_ok)
    /\ ai_tasks' = ai_tasks \ {t}
    /\ UNCHANGED <<current_session, sessions_options, turn_count, knowledge_vars, engine_vars, context_vars, split_vars, ask_vars, provider_vars, stream_vars>>

\* ChatModule._load_history
_load_history(session_id) ==
    LET rows == get_chat_history(chat_history, session_id)
    IN /\ layout_messages' = load_history(rows)
       /\ conversation_history' = load_history(rows)

\* ChatModule._on_new_session
_on_new_session ==
    /\ current_session' = _generate_session_id(chat_history)
    /\ conversation_history' = <<>>
    /\ layout_messages' = <<>>
    /\ sessions_options' = _load_sessions(chat_history)
    /\ UNCHANGED <<chat_history, typing_visible, ai_tasks, turn_count, knowledge_vars, engine_vars, context_vars, split_vars, ask_vars, provider_vars, stream_vars>>

\* ChatModule._on_session_select, with an option of the dropdown
_on_session_select(session_id) ==
    /\ \E i \in 1..Len(sessions_options) : sessions_options[i] = session_id
    /\ current_session' = session_id
    /\ typing_visible' = FALSE
    /\ _load_history(session_id)
    /\ UNCHANGED <<chat_history, sessions_options, ai_tasks, turn_count, knowledge_vars, engine_vars, context_vars, split_vars, ask_vars, provider_vars, stream_vars>>

-----------------------------------------------------------------------------
(* Configuration and providers *)

\* config.ai.provider as the YAML file may hold it; the settings dropdown offers
\* ollama and deepseek
ConfigProviders == {"ollama", "deepseek", "openai"}

SettingsProviders == {"ollama", "deepseek"}

\* config.ai.deepseek_api_key: "" stands for None and for the empty field
ApiKeys == {"", "sk"}

AIConfig(provider, deepseek_api_key) ==
    [provider |-> provider, deepseek_api_key |-> deepseek_api_key]

\* a provider object: its registered name and the api_key it was built with
\* (OllamaProvider has none)
Provider(name, api_key) == [name |-> name, api_key |-> api_key]

NoProvider == Provider("None", "")

\* AIEngine._setup_providers: ollama always, deepseek if the key is truthy
_setup_providers(cfg) ==
    <<Provider("ollama", "")>>
    \o (IF cfg.deepseek_api_key # ""
        THEN <<Provider("deepseek", cfg.deepseek_api_key)>> ELSE <<>>)

\* the mutant of get_provider without the fallback
get_provider_no_fallback(provs, cfg) ==
    IF \E i \in 1..Len(provs) : provs[i].name = cfg.provider
    THEN provs[CHOOSE i \in 1..Len(provs) : provs[i].name = cfg.provider]
    ELSE NoProvider

\* AIEngine.get_provider: providers.get(current_provider), else the first one
get_provider(provs, cfg) ==
    IF \E i \in 1..Len(provs) : provs[i].name = cfg.provider
    THEN provs[CHOOSE i \in 1..Len(provs) : provs[i].name = cfg.provider]
    ELSE IF provs # <<>> THEN provs[1] ELSE NoProvider

\* what the backend does with a call: it answers, the client library is
\* missing, or the transport fails.  (With a missing library provider.chat
\* returns without suspending; the model lets other handlers run in between all
\* the same, which adds behaviours and removes none.)
Outcomes == {"ok", "import_error", "transport_error"}

Result(content, network) == [content |-> content, network |-> network, raised |-> FALSE]

\* the mutant of provider_chat that lets the transport error out
provider_chat_raising(p, outcome) ==
    IF outcome = "transport_error"
    THEN [content |-> "", network |-> TRUE, raised |-> TRUE]
    ELSE Result("answer", outcome = "ok")

\* OllamaProvider.chat / DeepSeekProvider.chat: the text returned and whether
\* the network call was attempted
provider_chat(p, outcome) ==
    IF p.name = "deepseek"
    THEN IF p.api_key = "" THEN Result("Error: DeepSeek API key is not configured. Set it in the settings.", FALSE)
         ELSE CASE outcome = "ok" -> Result("answer", TRUE)
                [] outcome = "import_error" -> Result("Error: openai library is not installed.", FALSE)
                [] outcome = "transport_error" -> Result("DeepSeek error: e", TRUE)
    ELSE CASE outcome = "ok" -> Result("answer", TRUE)
           [] outcome = "import_error" ->
                 Result("Error: ollama library is not installed. Run: pip install ollama", FALSE)
           [] outcome = "transport_error" -> Result("Ollama connection error: e", TRUE)

\* OllamaProvider.chat_stream / DeepSeekProvider.chat_stream: the items yielded,
\* fragments being what the backend streams before it ends or fails
provider_chat_stream(p, outcome, fragments) ==
    IF p.name = "deepseek"
    THEN IF p.api_key = "" THEN <<"Error: DeepSeek API key is not configured.">>
         ELSE CASE outcome = "ok" -> fragments
                [] outcome = "import_error" -> <<"Error: openai library is not installed.">>
                [] outcome = "transport_error" -> fragments \o <<"DeepSeek error: e">>
    ELSE CASE outcome = "ok" -> fragments
           [] outcome = "import_error" -> <<"Error: ollama library is not installed.">>
           [] outcome = "transport_error" -> fragments \o <<"Error: e">>

\* the texts the providers return in band when the backend call fails
ErrorTexts ==
    {"Error: openai library is not installed.", "DeepSeek error: e",
     "Error: ollama library is not installed. Run: pip install ollama",
     "Ollama connection error: e", "Error: ollama library is not installed.", "Error: e"}

NotCalled == [provider |-> NoProvider, outcome |-> "ok"]

\* _get_ai_response up to its await, with the provider: AIEngine.chat takes
\* get_provider() and calls provider.chat, which attempts the network call
\* unless it returns before it
GetAIResponseCall(t, outcome) ==
    /\ t \in ai_tasks
    /\ t.pc = "scheduled"
    /\ ai_tasks' = (ai_tasks \ {t}) \cup {AiTask(t.turn, t.message, t.session_id, "awaiting")}
    /\ LET p == get_provider(providers, config_ai)
       IN /\ task_call' = [task_call EXCEPT ![t.turn] = [provider |-> p, outcome |-> outcome]]
          /\ backend_calls' =
                IF provider_chat(p, outcome).network
                THEN backend_calls \cup {[turn |-> t.turn, backend |-> p.name]}
                ELSE backend_calls
    /\ UNCHANGED <<current_session, conversation_history, chat_history, layout_messages,
                   typing_visible, sessions_options, turn_count, config_ai, providers,
                   knowledge_vars, engine_vars, context_vars, split_vars, ask_vars, stream_vars>>

\* the response provider.chat returns to the turn
ResponseOf(t) == provider_chat(task_call[t.turn].provider, task_call[t.turn].outcome).content

\* _get_ai_response from the return of provider.chat to its end, for a call made
\* on an engine that _save_settings has replaced since: AIEngine.chat appends to
\* the history of the old engine, which nothing reads any more
GetAIResponseFinishOld(t, response, db_ok, err_ok) ==
    /\ t \in ai_tasks
    /\ t.pc = "awaiting_old"
    /\ LET shown == IF current_session = t.session_id
                    THEN Append(layout_messages, HistoryEntry("assistant", response))
                    ELSE layout_messages
       IN IF db_ok
          THEN /\ typing_visible' = FALSE
               /\ layout_messages' = shown
               /\ chat_history' = add_chat_message(chat_history, "assistant", response,
                                                   t.session_id, current_provider, t.turn)
          ELSE ExceptBranch(t, shown, chat_history, err_ok)
    /\ ai_tasks' = ai_tasks \ {t}
    /\ UNCHANGED <<current_session, conversation_history, sessions_options, turn_count,
                   knowledge_vars, engine_vars, context_vars, split_vars, ask_vars, provider_vars, stream_vars>>

\* the current_provider setter
SetCurrentProvider(value) ==
    /\ config_ai' = IF \E i \in 1..Len(providers) : providers[i].name = value
                    THEN [config_ai EXCEPT !.provider = value]
                    ELSE config_ai
    /\ UNCHANGED <<providers, task_call, backend_calls, chat_vars, knowledge_vars,
                   engine_vars, context_vars, split_vars, ask_vars, stream_vars>>

\* SphereApp._update_setting("ai.provider", value) / ("ai.deepseek_api_key", value)
_update_setting(key, value) ==
    /\ config_ai' = IF key = "ai.provider"
                    THEN [config_ai EXCEPT !.provider = value]
                    ELSE [config_ai EXCEPT !.deepseek_api_key = value]
    /\ UNCHANGED <<providers, task_call, backend_calls, chat_vars, knowledge_vars,
                   engine_vars, context_vars, split_vars, ask_vars, stream_vars>>

\* SphereApp._save_settings: a new AIEngine on the same config replaces the
\* engine of the chat module; the calls awaiting a provider stay with the old one
_save_settings ==
    /\ providers' = _setup_providers(config_ai)
    /\ conversation_history' = <<>>
    /\ ai_tasks' = {IF t.pc = "awaiting"
                    THEN AiTask(t.turn, t.message, t.session_id, "awaiting_old")
                    ELSE t : t \in ai_tasks}
    /\ UNCHANGED <<current_session, chat_history, layout_messages, typing_visible,
                   sessions_options, turn_count, config_ai, task_call, backend_calls,
                   knowledge_vars, engine_vars, context_vars, split_vars, ask_vars, stream_vars>>

-----------------------------------------------------------------------------
(* Knowledge base: files, rows, chunks *)

\* a text, by its length in characters and its number of words (text.split())
Text(chars, words) == [chars |-> chars, words |-> words]

EmptyText == Text(0, 0)

\* the files a user may pick: an empty one, and one of 600 words (two chunks)
UploadTexts == {EmptyText, Text(3600, 600)}

FileNames == {"a.txt", "b.pdf"}

\* filename.rsplit(".", 1)[-1].lower()
FileType(filename) ==
    CASE filename = "a.txt" -> "txt"
      [] filename = "b.pdf" -> "pdf"

\* str(KNOWLEDGE_DIR / filename)
FilePath(filename) == "knowledge/" \o filename

FileOfPath(filepath) == CHOOSE f \in FileNames : FilePath(f) = filepath

\* os.path.exists(filepath)
PathExists(dir, filepath) ==
    \E f \in DOMAIN dir : FilePath(f) = filepath

\* shutil.copy2(src_path, dest_path): creates or overwrites the file
CopyFile(dir, filename, text) ==
    [f \in DOMAIN dir \cup {filename} |-> IF f = filename THEN text ELSE dir[f]]

\* os.remove(filepath)
RemoveFile(dir, filepath) ==
    [f \in DOMAIN dir \ {FileOfPath(filepath)} |-> dir[f]]

\* a row of knowledge_documents, as INSERTed by Database.add_document:
\* processed DEFAULT 0, chunk_count DEFAULT 0, summary NULL
NewDocument(filename) ==
    [filename |-> filename, filepath |-> FilePath(filename), filetype |-> FileType(filename),
     processed |-> FALSE, chunk_count |-> 0, summary |-> "NULL"]

\* Database.get_documents: ORDER BY created_at DESC LIMIT 100 (ids of the rows)
get_documents(table) ==
    {d \in DOMAIN table : Cardinality({e \in DOMAIN table : e > d}) < DocumentsLimit}

\* Database.update_document(doc_id, processed=True, chunk_count=..., summary=...):
\* UPDATE ... WHERE id = ?, which changes nothing when the row is gone
update_document(table, doc_id, chunk_count, summary) ==
    [d \in DOMAIN table |->
        IF d = doc_id
        THEN [table[d] EXCEPT !.processed = TRUE, !.chunk_count = chunk_count,
                              !.summary = summary]
        ELSE table[d]]

\* DELETE FROM knowledge_documents WHERE id = ?
DeleteRow(table, doc_id) == [d \in DOMAIN table \ {doc_id} |-> table[d]]

\* the status KnowledgeLayout shows for a row
DocStatus(row) == IF row.processed THEN "processed" ELSE "pending"

\* f"doc_{doc_id}_chunk_{i}"
ChunkId(doc_id, i) == "doc_" \o ToString(doc_id) \o "_chunk_" \o ToString(i)

\* a chunk in the collection: id and metadata
Chunk(doc_id, i) == [id |-> ChunkId(doc_id, i), doc_id |-> doc_id, chunk_index |-> i]

\* KnowledgeModule._extract_text.  extractor_ok: the extractor library of a rich
\* format imports.  A missing file raises inside the try and yields "".
_extract_text(dir, filepath, filetype, extractor_ok) ==
    IF ~PathExists(dir, filepath) THEN EmptyText
    ELSE IF filetype \in {"txt", "md"} THEN dir[FileOfPath(filepath)]
    ELSE IF filetype \in {"pdf", "docx", "html"}
         THEN IF extractor_ok THEN dir[FileOfPath(filepath)] ELSE EmptyText
    ELSE EmptyText

\* the while loop of _split_text over words[start:end], a chunk being the pair
\* <<start, end>> of the slice it holds (end clipped to the length, as a slice is)
RECURSIVE SplitFrom(_, _, _, _)
SplitFrom(start, n_words, chunk_size, overlap) ==
    IF start < n_words
    THEN LET end == start + chunk_size
         IN <<<<start, IF end < n_words THEN end ELSE n_words>>>>
            \o SplitFrom(end - overlap, n_words, chunk_size, overlap)
    ELSE <<>>

\* _split_text stepping by the whole chunk: start = end
_split_text_disjoint(text, chunk_size, overlap) ==
    LET chunks == SplitFrom(0, text.words, chunk_size, 0)
    IN IF chunks # <<>> THEN chunks ELSE <<<<0, text.words>>>>

\* _split_text returning chunks as they are, without the fallback [text]
_split_text_no_fallback(text, chunk_size, overlap) ==
    SplitFrom(0, text.words, chunk_size, overlap)

\* KnowledgeModule._split_text: chunks if chunks else [text]
_split_text(text, chunk_size, overlap) ==
    LET chunks == SplitFrom(0, text.words, chunk_size, overlap)
    IN IF chunks # <<>> THEN chunks ELSE <<<<0, text.words>>>>

\* summary = text[:500] + "..." if len(text) > 500 else text
Summary(text) ==
    IF text.chars > SummaryLimit
    THEN [chars |-> SummaryLimit + 3, truncated |-> TRUE]
    ELSE [chars |-> text.chars, truncated |-> FALSE]

\* a started _process_document(doc_id, filepath, filetype)
ProcessTask(doc_id, filepath, filetype) ==
    [doc_id |-> doc_id, filepath |-> filepath, filetype |-> filetype]

\* the ids _on_delete passes to VectorDB.delete
DeleteIds(doc_id, chunk_count) == {ChunkId(doc_id, i) : i \in 0..(chunk_count - 1)}

\* a call _on_delete makes: op is "index_delete", "remove_file" or "delete_row"
Call(op, arg) == [op |-> op, arg |-> arg]

NoDelete == [doc_id |-> 0, found |-> FALSE, chunk_count |-> 0, file_existed |-> FALSE,
             calls |-> <<>>]

\* KnowledgeModule._on_file_picked with one file picked.  copy_ok: shutil.copy2
\* succeeds; db_ok: add_document succeeds (a failure is caught and logged)
_on_file_picked(filename, text, copy_ok, db_ok) ==
    /\ next_doc_id <= MaxDocs
    /\ fault_seen' = (fault_seen \/ ~copy_ok \/ ~db_ok)
    /\ IF ~copy_ok
       THEN UNCHANGED <<knowledge_dir, knowledge_documents, next_doc_id, process_tasks>>
       ELSE /\ knowledge_dir' = CopyFile(knowledge_dir, filename, text)
            /\ IF ~db_ok
               THEN UNCHANGED <<knowledge_documents, next_doc_id, process_tasks>>
               ELSE /\ knowledge_documents' =
                          [d \in DOMAIN knowledge_documents \cup {next_doc_id} |->
                              IF d = next_doc_id THEN NewDocument(filename)
                              ELSE knowledge_documents[d]]
                    /\ next_doc_id' = next_doc_id + 1
                    /\ process_tasks' = process_tasks \cup
                          {ProcessTask(next_doc_id, FilePath(filename), FileType(filename))}
    /\ last_delete' = NoDelete
    /\ UNCHANGED <<collection, collection_available, chat_vars, engine_vars, context_vars, split_vars, ask_vars, provider_vars, stream_vars>>

\* KnowledgeModule._process_document: it holds no await, so it runs in one piece.
\* add_ok: VectorDB.add_texts succeeds; update_ok: Database.update_document
\* succeeds (either failure is caught by the except of line 125 and logged)
_process_document(t, extractor_ok, add_ok, update_ok) ==
    /\ t \in process_tasks
    /\ process_tasks' = process_tasks \ {t}
    /\ LET text == _extract_text(knowledge_dir, t.filepath, t.filetype, extractor_ok)
           chunks == _split_text(text, ChunkSize, Overlap)
           added == IF collection_available
                    THEN collection \cup {Chunk(t.doc_id, i - 1) : i \in 1..Len(chunks)}
                    ELSE collection
       IN IF text = EmptyText
          THEN UNCHANGED <<collection, knowledge_documents, fault_seen>>
          ELSE IF collection_available /\ ~add_ok
          THEN /\ fault_seen' = TRUE
               /\ UNCHANGED <<collection, knowledge_documents>>
          ELSE /\ collection' = added
               /\ IF ~update_ok
                  THEN /\ fault_seen' = TRUE
                       /\ UNCHANGED knowledge_documents
                  ELSE /\ knowledge_documents' =
                             update_document(knowledge_documents, t.doc_id,
                                             Len(chunks), Summary(text))
                       /\ UNCHANGED fault_seen
    /\ last_delete' = NoDelete
    /\ UNCHANGED <<knowledge_dir, next_doc_id, collection_available, chat_vars, engine_vars, context_vars, split_vars, ask_vars, provider_vars, stream_vars>>

\* KnowledgeModule._on_delete, for a document the layout lists.  index_ok:
\* VectorDB.delete succeeds; remove_ok: os.remove succeeds (either failure ends
\* the try block, line 232); row_ok: the DELETE succeeds
_on_delete(doc_id, index_ok, remove_ok, row_ok) ==
    /\ doc_id \in DOMAIN knowledge_documents
    /\ LET found == doc_id \in get_documents(knowledge_documents)
           doc == knowledge_documents[doc_id]
           chunk_count == doc.chunk_count
           ids == DeleteIds(doc_id, chunk_count)
           index_called == found /\ chunk_count # 0 /\ collection_available
           index_raised == index_called /\ ~index_ok
           file_existed == PathExists(knowledge_dir, doc.filepath)
           remove_called == found /\ ~index_raised /\ doc.filepath # "" /\ file_existed
           remove_raised == remove_called /\ ~remove_ok
       IN /\ collection' =
                IF index_called /\ index_ok
                THEN {c \in collection : c.id \notin ids}
                ELSE collection
          /\ knowledge_dir' =
                IF remove_called /\ remove_ok
                THEN RemoveFile(knowledge_dir, doc.filepath)
                ELSE knowledge_dir
          /\ knowledge_documents' =
                IF row_ok THEN DeleteRow(knowledge_documents, doc_id)
                ELSE knowledge_documents
          /\ last_delete' =
                [doc_id |-> doc_id, found |-> found, chunk_count |-> chunk_count,
                 file_existed |-> file_existed,
                 calls |-> (IF index_called THEN <<Call("index_delete", ids)>> ELSE <<>>)
                           \o (IF remove_called
                               THEN <<Call("remove_file", {doc.filepath})>> ELSE <<>>)
                           \o <<Call("delete_row", {doc_id})>>]
          /\ fault_seen' = (fault_seen \/ index_raised \/ remove_raised \/ ~row_ok)
    /\ UNCHANGED <<next_doc_id, collection_available, process_tasks, chat_vars, engine_vars, context_vars, split_vars, ask_vars, provider_vars, stream_vars>>

-----------------------------------------------------------------------------
(* AIEngine: building the request *)

\* the bundles _gather_context may hand over: a dict from source name to a
\* non-empty list of items (an item stands for its rendered line)
NoContext == <<>>

Contexts == {NoContext,
             [tasks |-> <<>>],
             [tasks |-> <<"Pay rent">>],
             [tasks |-> <<"Pay rent">>, search_notes |-> <<"Budget", "Q3">>]}

Modes == {"knowledge", "hybrid", "model_only"}

\* sep.join(items)
RECURSIVE Join(_, _)
Join(items, sep) ==
    IF items = <<>> THEN ""
    ELSE IF Len(items) = 1 THEN items[1]
    ELSE items[1] \o sep \o Join(Tail(items), sep)

\* AIEngine._format_context: one labelled paragraph per source present, at most
\* five items each, joined by blank lines
_format_context(context) ==
    LET has(k) == k \in DOMAIN context /\ context[k] # <<>>
        part(k, label, sep) ==
            IF has(k) THEN <<label \o Join(FirstN(context[k], 5), sep)>> ELSE <<>>
        parts == part("tasks", "Tasks: ", ", ")
                 \o part("events", "Events: ", ", ")
                 \o part("notes", "Notes: ", ", ")
                 \o part("search_notes", "Relevant notes:/", "/")
                 \o part("search_tasks", "Relevant tasks:/", "/")
                 \o part("search_docs", "Relevant fragments:/", "/")
    IN Join(parts, "//")

KnowledgeOnlyInstruction == "//IMPORTANT: answer ONLY from the context above."

\* the mutant of _build_messages that replays the first max_history entries
_build_messages_oldest(history, user_message, context, mode) ==
    <<HistoryEntry("system", "SYSTEM_PROMPT")>>
    \o (IF context # NoContext /\ _format_context(context) # ""
        THEN <<HistoryEntry("system", "User context:/" \o _format_context(context)
                  \o (IF mode = "knowledge" THEN KnowledgeOnlyInstruction ELSE ""))>>
        ELSE <<>>)
    \o FirstN(history, max_history)
    \o <<HistoryEntry("user", user_message)>>

\* the mutant of _build_messages that adds the instruction whatever the mode
_build_messages_any_mode(history, user_message, context, mode) ==
    <<HistoryEntry("system", "SYSTEM_PROMPT")>>
    \o (IF context # NoContext /\ _format_context(context) # ""
        THEN <<HistoryEntry("system", "User context:/" \o _format_context(context)
                  \o KnowledgeOnlyInstruction)>>
        ELSE <<>>)
    \o LastN(history, max_history)
    \o <<HistoryEntry("user", user_message)>>

\* AIEngine._build_messages, history being self.conversation_history
_build_messages(history, user_message, context, mode) ==
    <<HistoryEntry("system", "SYSTEM_PROMPT")>>
    \o (IF context # NoContext /\ _format_context(context) # ""
        THEN <<HistoryEntry("system", "User context:/" \o _format_context(context)
                  \o (IF mode = "knowledge" THEN KnowledgeOnlyInstruction ELSE ""))>>
        ELSE <<>>)
    \o LastN(history, max_history)
    \o <<HistoryEntry("user", user_message)>>

NoCall == ""

\* the n-th question and the n-th answer of a conversation
Question(n) == "q" \o ToString(n)

Answer(n) == "a" \o ToString(n)

\* AIEngine.chat up to its await: the request is built and handed to the provider
ChatCall(message, context, mode) ==
    /\ chat_pending = NoCall
    /\ Len(conversation_history) + 2 <= MaxHistoryLen
    /\ messages' = _build_messages(conversation_history, message, context, mode)
    /\ chat_pending' = message
    /\ UNCHANGED <<current_session, conversation_history, chat_history, layout_messages,
                   typing_visible, sessions_options, ai_tasks, turn_count, knowledge_vars, context_vars, split_vars, ask_vars, provider_vars, stream_vars>>

\* AIEngine.chat after provider.chat has returned: the two appends
ChatReturn(response) ==
    /\ chat_pending # NoCall
    /\ conversation_history' = chat_appends(conversation_history, chat_pending, response)
    /\ chat_pending' = NoCall
    /\ UNCHANGED <<current_session, chat_history, layout_messages, typing_visible,
                   sessions_options, ai_tasks, turn_count, messages, knowledge_vars, context_vars, split_vars, ask_vars, provider_vars, stream_vars>>

\* AIEngine.clear_history
clear_history ==
    /\ chat_pending = NoCall
    /\ conversation_history # <<>>
    /\ conversation_history' = <<>>
    /\ UNCHANGED <<current_session, chat_history, layout_messages, typing_visible,
                   sessions_options, ai_tasks, turn_count, messages, chat_pending,
                   knowledge_vars, context_vars, split_vars, ask_vars, provider_vars, stream_vars>>

-----------------------------------------------------------------------------
(* AIEngine.chat_stream *)

\* the n fragments a backend streams
Fragments(n) == [i \in 1..n |-> "f" \o ToString(i)]

\* the generator chat_stream returns: pc is "open" while it is suspended at a
\* yield, "ended" after its natural end, "closed" after the consumer closed it;
\* script: the items its provider's stream yields; yielded: the items handed to
\* the consumer so far; full_response: the local accumulator
Generator(pc, message, has_provider, script, yielded, full_response) ==
    [pc |-> pc, message |-> message, has_provider |-> has_provider, script |-> script,
     yielded |-> yielded, full_response |-> full_response]

NoStream == Generator("none", "", FALSE, <<>>, <<>>, "")

\* the generator resumed: the next item of the provider's stream is added to
\* full_response and yielded, or the loop ends and the generator returns
Resume(g) ==
    IF Len(g.yielded) < Len(g.script)
    THEN LET chunk == g.script[Len(g.yielded) + 1]
         IN [g EXCEPT !.pc = "open", !.yielded = Append(@, chunk),
                      !.full_response = @ \o chunk]
    ELSE [g EXCEPT !.pc = "ended"]

\* the history after the generator was resumed from g to h: the two appends of
\* lines 267-268 once the loop over the provider's stream has ended
HistoryAfter(history, g, h) ==
    IF h.pc = "ended" /\ g.has_provider
    THEN history \o <<HistoryEntry("user", g.message),
                      HistoryEntry("assistant", g.full_response)>>
    ELSE history

\* chat_stream(message) called and its first item asked for: the request is
\* built, the provider taken, and the generator runs to its first yield or to
\* its end.  outcome, n: what the backend does with the call
StreamStart(message, outcome, n) ==
    /\ stream.pc \in {"none", "ended", "closed"}
    /\ Len(conversation_history) < 2 * MaxStreams
    /\ messages' = _build_messages(conversation_history, message, NoContext, "hybrid")
    /\ LET p == get_provider(providers, config_ai)
           g == IF p = NoProvider
                THEN Generator("open", message, FALSE,
                               <<"Error: no AI providers available.">>, <<>>, "")
                ELSE Generator("open", message, TRUE,
                               provider_chat_stream(p, outcome, Fragments(n)), <<>>, "")
       IN /\ stream' = Resume(g)
          /\ conversation_history' = HistoryAfter(conversation_history, g, Resume(g))
    /\ UNCHANGED <<current_session, chat_history, layout_messages, typing_visible,
                   sessions_options, ai_tasks, turn_count, chat_pending, knowledge_vars,
                   context_vars, split_vars, ask_vars, provider_vars>>

\* the consumer asks for the next item
StreamNext ==
    /\ stream.pc = "open"
    /\ stream' = Resume(stream)
    /\ conversation_history' = HistoryAfter(conversation_history, stream, Resume(stream))
    /\ UNCHANGED <<current_session, chat_history, layout_messages, typing_visible,
                   sessions_options, ai_tasks, turn_count, engine_vars, knowledge_vars,
                   context_vars, split_vars, ask_vars, provider_vars>>

\* the mutant of StreamClose that records the partial response
StreamClose_recording ==
    /\ stream.pc = "open"
    /\ stream' = [stream EXCEPT !.pc = "closed"]
    /\ conversation_history' =
          conversation_history \o <<HistoryEntry("user", stream.message),
                                    HistoryEntry("assistant", stream.full_response)>>
    /\ UNCHANGED <<current_session, chat_history, layout_messages, typing_visible,
                   sessions_options, ai_tasks, turn_count, engine_vars, knowledge_vars,
                   context_vars, split_vars, ask_vars, provider_vars>>

\* the consumer stops reading and the generator is closed: GeneratorExit is
\* raised at the yield, so nothing after the loop runs
StreamClose ==
    /\ stream.pc = "open"
    /\ stream' = [stream EXCEPT !.pc = "closed"]
    /\ UNCHANGED <<chat_vars, engine_vars, knowledge_vars, context_vars, split_vars, ask_vars, provider_vars>>

-----------------------------------------------------------------------------
(* ChatModule: gathering the context *)

\* what the user message handed to _gather_context may be
Queries == {"", " ", "a", " a ", "ab", " ab "}

\* len(user_message.strip())
StripLen(q) ==
    CASE q = ""     -> 0
      [] q = " "    -> 0
      [] q = "a"    -> 1
      [] q = " a "  -> 1
      [] q = "ab"   -> 2
      [] q = " ab " -> 2

\* what a call to a store does: it raises, or it returns rows
Outcome(raises, rows) == [raises |-> raises, rows |-> rows]

\* n rows of a table, an item standing for its row
Rows(prefix, n) == [i \in 1..n |-> prefix \o ToString(i)]

\* the stores _gather_context may meet.  todo: the tasks of status todo in the
\* order of the query; events: the events from today on; notes, tasks, docs:
\* what the three searches do for the query; vector_available: is_available
Stores ==
    [todo : {Outcome(TRUE, <<>>)} \cup {Outcome(FALSE, Rows("task", n)) : n \in 0..MaxItems},
     events : {Outcome(TRUE, <<>>)} \cup {Outcome(FALSE, Rows("event", n)) : n \in 0..MaxItems},
     notes : {Outcome(TRUE, <<>>), Outcome(FALSE, <<>>), Outcome(FALSE, Rows("note", 1))},
     tasks : {Outcome(TRUE, <<>>), Outcome(FALSE, <<>>), Outcome(FALSE, Rows("found", 1))},
     docs : {Outcome(TRUE, <<>>), Outcome(FALSE, <<>>), Outcome(FALSE, Rows("chunk", 1))},
     vector_available : BOOLEAN]

\* the mutant of get_tasks that ignores its limit
get_tasks_unlimited(todo, limit) == todo

\* Database.get_tasks(status="todo", limit): ... WHERE status = ? ... LIMIT ?
get_tasks(todo, limit) == [todo EXCEPT !.rows = FirstN(todo.rows, limit)]

\* Database.get_events(start_from=today, limit): ... ORDER BY start_time ASC LIMIT ?
get_events(events, limit) == [events EXCEPT !.rows = FirstN(events.rows, limit)]

\* VectorDB.search: empty when the index is unavailable, and its own except
\* returns [] when the query raises
vector_search(store) ==
    IF ~store.vector_available \/ store.docs.raises
    THEN Outcome(FALSE, <<>>)
    ELSE store.docs

\* one guarded retrieval: try: rows = call(); if rows: context[key] = rows;
\* except Exception: pass.  escaped: the exception leaves _gather_context
Guarded(key, call, outcome) ==
    [calls |-> <<call>>,
     entries |-> IF ~outcome.raises /\ outcome.rows # <<>>
                 THEN {[key |-> key, rows |-> outcome.rows]} ELSE {},
     escaped |-> FALSE]

NotRun == [calls |-> <<>>, entries |-> {}, escaped |-> FALSE]

\* the dict built from the entries set
Bundle(entries) ==
    [k \in {e.key : e \in entries} |-> (CHOOSE e \in entries : e.key = k).rows]

\* the mutant of SearchRetrievals that runs the three searches in one try block
SearchRetrievals_one_try(query, store) ==
    LET notes == Guarded("search_notes", "search_notes", store.notes)
        tasks == IF store.notes.raises THEN NotRun
                 ELSE Guarded("search_tasks", "search_tasks", store.tasks)
        docs == IF store.notes.raises \/ store.tasks.raises \/ ~store.vector_available
                THEN NotRun
                ELSE Guarded("search_docs", "vector_search", vector_search(store))
    IN <<notes, tasks, docs>>

\* the three retrievals driven by the query (lines 176-195), each in a try of
\* its own; the index is searched only when it is available
SearchRetrievals(query, store) ==
    LET notes == Guarded("search_notes", "search_notes", store.notes)
        tasks == Guarded("search_tasks", "search_tasks", store.tasks)
        docs == IF store.vector_available
                THEN Guarded("search_docs", "vector_search", vector_search(store))
                ELSE NotRun
    IN <<notes, tasks, docs>>

\* _gather_context past the model_only test (lines 156-196): the dict
\* returned, the calls made on the stores in order, and whether an exception
\* left the method
Retrievals(user_message, mode, store) ==
    LET tasks == IF mode = "hybrid"
                 THEN Guarded("tasks", "get_tasks", get_tasks(store.todo, ContextLimit))
                 ELSE NotRun
        events == IF mode = "hybrid"
                  THEN Guarded("events", "get_events", get_events(store.events, ContextLimit))
                  ELSE NotRun
        search == IF user_message # "" /\ StripLen(user_message) >= MinQueryLen
                  THEN SearchRetrievals(user_message, store)
                  ELSE <<NotRun, NotRun, NotRun>>
        parts == <<tasks, events>> \o search
    IN [bundle |-> Bundle(UNION {parts[i].entries : i \in 1..Len(parts)}),
        calls |-> parts[1].calls \o parts[2].calls \o parts[3].calls
                  \o parts[4].calls \o parts[5].calls,
        raised |-> \E i \in 1..Len(parts) : parts[i].escaped]

\* the mutant of _gather_context without the model_only test
_gather_context_any_mode(user_message, mode, store) ==
    Retrievals(user_message, mode, store)

\* ChatModule._gather_context
_gather_context(user_message, mode, store) ==
    IF mode = "model_only"
    THEN [bundle |-> NoContext, calls |-> <<>>, raised |-> FALSE]
    ELSE Retrievals(user_message, mode, store)

\* the arguments and the stores of a call not made yet
GatherInput(user_message, mode, store) ==
    [called |-> FALSE, user_message |-> user_message, mode |-> mode, store |-> store]

NotGathered ==
    GatherInput("", "hybrid",
                [todo |-> Outcome(FALSE, <<>>), events |-> Outcome(FALSE, <<>>),
                 notes |-> Outcome(FALSE, <<>>), tasks |-> Outcome(FALSE, <<>>),
                 docs |-> Outcome(FALSE, <<>>), vector_available |-> FALSE])

NothingGathered == [bundle |-> NoContext, calls |-> <<>>, raised |-> FALSE]

\* the call of _gather_context on the arguments and stores at hand
GatherContext ==
    /\ ~gather_in.called
    /\ gather_in' = [gather_in EXCEPT !.called = TRUE]
    /\ gather_out' = _gather_context(gather_in.user_message, gather_in.mode, gather_in.store)
    /\ UNCHANGED <<chat_vars, knowledge_vars, engine_vars, provider_vars, stream_vars,
                   split_vars, ask_vars>>

-----------------------------------------------------------------------------
(* KnowledgeModule._split_text seen alone *)

\* the arguments of one call: a text of n_words words, chunk_size > overlap >= 0
SplitInput(n_words, chunk_size, overlap) ==
    [called |-> FALSE, text |-> Text(6 * n_words, n_words), chunk_size |-> chunk_size,
     overlap |-> overlap]

\* the call of _split_text on the arguments at hand
SplitText ==
    /\ ~split_in.called
    /\ split_in' = [split_in EXCEPT !.called = TRUE]
    /\ split_out' = _split_text(split_in.text, split_in.chunk_size, split_in.overlap)
    /\ UNCHANGED <<chat_vars, knowledge_vars, engine_vars, context_vars, provider_vars,
                   stream_vars, ask_vars>>

-----------------------------------------------------------------------------
(* KnowledgeModule: questions *)

\* the answer shown before any question, while searching, and when nothing is found
NoAnswer == "*Upload documents and ask a question.*"

Searching == "*Searching...*"

NotFound == "No relevant documents found"

\* the prompt _answer_question builds from the fragments and the question
Prompt(question) == "Fragments and question: " \o question

\* VectorDB.search(question, n_results=3): [] when the index is unavailable,
\* empty, or the query raises (search_ok false); here, whether it found anything
search(index, available, search_ok) == available /\ search_ok /\ index # {}

\* KnowledgeModule._on_ask and _answer_question up to its await: the search,
\* then either the notice that nothing was found or AIEngine.chat(prompt) called
AnswerQuestionCall(question, search_ok) ==
    /\ ask_pending = NoCall
    /\ Len(conversation_history) \div 2 < MaxQuestions
    /\ IF search(collection, collection_available, search_ok)
       THEN /\ ask_pending' = Prompt(question)
            /\ layout_answer' = Searching
       ELSE /\ ask_pending' = NoCall
            /\ layout_answer' = NotFound
    /\ UNCHANGED <<chat_vars, knowledge_vars, engine_vars, context_vars, provider_vars,
                   stream_vars, split_vars>>

\* _answer_question after its await: AIEngine.chat has appended the prompt and
\* the response to the history of the engine, which is the one ChatModule uses
\* (SphereApp.initialize hands both modules self.ai_engine)
AnswerQuestionReturn(response) ==
    /\ ask_pending # NoCall
    /\ conversation_history' = chat_appends(conversation_history, ask_pending, response)
    /\ layout_answer' = response
    /\ ask_pending' = NoCall
    /\ UNCHANGED <<current_session, chat_history, layout_messages, typing_visible,
                   sessions_options, ai_tasks, turn_count, knowledge_vars, engine_vars,
                   context_vars, provider_vars, stream_vars, split_vars>>

-----------------------------------------------------------------------------
(* Specifications *)

\* ChatModule.__init__ and build() on an empty database
ChatInit ==
    /\ current_session = DefaultSession
    /\ conversation_history = <<>>
    /\ chat_history = <<>>
    /\ layout_messages = <<>>
    /\ typing_visible = FALSE
    /\ sessions_options = <<DefaultSession>>
    /\ ai_tasks = {}
    /\ turn_count = 0

\* KnowledgeModule.__init__ on an empty knowledge base
KnowledgeInit ==
    /\ knowledge_dir = <<>>
    /\ knowledge_documents = <<>>
    /\ next_doc_id = 1
    /\ collection = {}
    /\ process_tasks = {}
    /\ last_delete = NoDelete
    /\ fault_seen = FALSE

\* AIEngine.__init__
EngineInit ==
    /\ messages = <<>>
    /\ chat_pending = NoCall

\* no call of _gather_context yet
ContextInit ==
    /\ gather_in = NotGathered
    /\ gather_out = NothingGathered

\* the default configuration: AIConfig() and the providers set up from it
ProviderInit ==
    /\ config_ai = AIConfig("ollama", "")
    /\ providers = _setup_providers(AIConfig("ollama", ""))
    /\ task_call = [n \in 1..MaxTurns |-> NotCalled]
    /\ backend_calls = {}

\* no chat_stream call yet
StreamInit == stream = NoStream

\* no call of _split_text seen alone yet
SplitInit ==
    /\ split_in = SplitInput(0, ChunkSize, Overlap)
    /\ split_out = <<>>

\* no question asked yet
AskInit ==
    /\ ask_pending = NoCall
    /\ layout_answer = NoAnswer

\* The chat turn: sends, responses, session switches
Init ==
    /\ ChatInit /\ KnowledgeInit /\ collection_available = TRUE /\ EngineInit /\ ContextInit
    /\ ProviderInit /\ StreamInit /\ SplitInit /\ AskInit

Next ==
    \/ \E raw \in RawInputs, db_ok \in BOOLEAN : _on_send_message(raw, db_ok)
    \/ \E t \in ai_tasks, raises \in BOOLEAN, db_ok \in BOOLEAN :
          GetAIResponseStart(t, raises, db_ok)
    \/ \E t \in ai_tasks, response \in ResponseTexts, db_ok \in BOOLEAN, err_ok \in BOOLEAN :
          GetAIResponseFinish(t, response, db_ok, err_ok)
    \/ _on_new_session
    \/ \E s \in {DefaultSession} \cup {SessionName(n) : n \in {-1} \cup Suffixes} :
          _on_session_select(s)

Spec == Init /\ [][Next]_vars

\* the rows an earlier run left under the default session: n messages of
\* completed turns, user and assistant in turn, oldest first (turn 0: none of
\* this run's sends)
StoredRows(n) ==
    [i \in 1..n |->
        IF i % 2 = 1
        THEN ChatRow(DefaultSession, "user", Question((i + 1) \div 2), "ollama", 0)
        ELSE ChatRow(DefaultSession, "assistant", Answer(i \div 2), "ollama", 0)]

\* ChatModule.__init__ and build() on a database that holds a conversation:
\* build() calls _load_history and _load_sessions
InitStored ==
    /\ \E k \in 0..MaxStoredTurns : chat_history = StoredRows(2 * k)
    /\ current_session = DefaultSession
    /\ conversation_history = load_history(get_chat_history(chat_history, DefaultSession))
    /\ layout_messages = load_history(get_chat_history(chat_history, DefaultSession))
    /\ typing_visible = FALSE
    /\ sessions_options = _load_sessions(chat_history)
    /\ ai_tasks = {}
    /\ turn_count = 0
    /\ KnowledgeInit /\ collection_available = TRUE /\ EngineInit /\ ContextInit
    /\ ProviderInit /\ StreamInit /\ SplitInit /\ AskInit

\* The chat turn on a database that already holds a long conversation
SpecStored == InitStored /\ [][Next]_vars

\* The document pipeline: uploads, processing tasks, deletions; VectorDB.initialize
\* has succeeded or not
InitKnowledge ==
    ChatInit /\ KnowledgeInit /\ collection_available \in BOOLEAN /\ EngineInit
    /\ ContextInit
    /\ ProviderInit /\ StreamInit /\ SplitInit /\ AskInit

NextKnowledge ==
    \/ \E filename \in FileNames, text \in UploadTexts, copy_ok \in BOOLEAN, db_ok \in BOOLEAN :
          _on_file_picked(filename, text, copy_ok, db_ok)
    \/ \E t \in process_tasks, extractor_ok \in BOOLEAN, add_ok \in BOOLEAN,
          update_ok \in BOOLEAN :
          _process_document(t, extractor_ok, add_ok, update_ok)
    \/ \E doc_id \in DOMAIN knowledge_documents, index_ok \in BOOLEAN, remove_ok \in BOOLEAN,
          row_ok \in BOOLEAN :
          _on_delete(doc_id, index_ok, remove_ok, row_ok)

SpecKnowledge == InitKnowledge /\ [][NextKnowledge]_vars

\* AIEngine.chat called turn after turn on one engine: the history grows past
\* the replay window
NextEngine ==
    \/ \E message \in {"hi", Question(Len(conversation_history) \div 2 + 1)},
          context \in Contexts, mode \in Modes :
          ChatCall(message, context, mode)
    \/ ChatReturn(Answer(Len(conversation_history) \div 2 + 1))
    \/ clear_history

SpecEngine == Init /\ [][NextEngine]_vars

\* Questions to the knowledge base while documents are uploaded and processed
\* and the chat is used
NextAsk ==
    \/ \E filename \in FileNames : _on_file_picked(filename, Text(3600, 600), TRUE, TRUE)
    \/ \E t \in process_tasks : _process_document(t, TRUE, TRUE, TRUE)
    \/ \E search_ok \in BOOLEAN : AnswerQuestionCall("q", search_ok)
    \/ AnswerQuestionReturn("answer")
    \/ _on_new_session
    \/ \E s \in {DefaultSession} : _on_session_select(s)

SpecAsk == InitKnowledge /\ [][NextAsk]_vars

\* The chat turn while every write to the store succeeds
NextTurns ==
    \/ \E raw \in RawInputs : _on_send_message(raw, TRUE)
    \/ \E t \in ai_tasks, raises \in BOOLEAN : GetAIResponseStart(t, raises, TRUE)
    \/ \E t \in ai_tasks : GetAIResponseFinish(t, "answer", TRUE, TRUE)
    \/ _on_new_session
    \/ \E s \in {DefaultSession} \cup {SessionName(n) : n \in {-1} \cup Suffixes} :
          _on_session_select(s)

\* page.run_task hands the coroutine to the event loop, which runs every
\* coroutine that is ready: a scheduled _get_ai_response starts, and one whose
\* provider call has returned or raised goes on to its end
TurnsFairness ==
    /\ WF_vars(\E t \in ai_tasks, raises \in BOOLEAN : GetAIResponseStart(t, raises, TRUE))
    /\ WF_vars(\E t \in ai_tasks : GetAIResponseFinish(t, "answer", TRUE, TRUE))

SpecTurns == Init /\ [][NextTurns]_vars /\ TurnsFairness

\* the session ids an earlier run may have left in the store: default, one of
\* another day, and today's up to suffix 1
StoredSessionIds == <<DefaultSession, OtherDay, DateStr, SessionName(0), SessionName(1)>>

\* one stored turn per session id of the sequence whose index is in S, in order
RECURSIVE SessionRows(_, _)
SessionRows(i, S) ==
    IF i > Len(StoredSessionIds) THEN <<>>
    ELSE (IF i \in S
          THEN <<ChatRow(StoredSessionIds[i], "user", Question(i), "ollama", 0),
                 ChatRow(StoredSessionIds[i], "assistant", Answer(i), "ollama", 0)>>
          ELSE <<>>)
         \o SessionRows(i + 1, S)

\* ChatModule.__init__ and build() on a database that holds sessions
InitSessions ==
    /\ \E S \in SUBSET (1..Len(StoredSessionIds)) : chat_history = SessionRows(1, S)
    /\ current_session = DefaultSession
    /\ conversation_history = load_history(get_chat_history(chat_history, DefaultSession))
    /\ layout_messages = load_history(get_chat_history(chat_history, DefaultSession))
    /\ typing_visible = FALSE
    /\ sessions_options = _load_sessions(chat_history)
    /\ ai_tasks = {}
    /\ turn_count = 0
    /\ KnowledgeInit /\ collection_available = TRUE /\ EngineInit /\ ContextInit
    /\ ProviderInit /\ StreamInit /\ SplitInit /\ AskInit

\* new sessions, and messages sent one after the other in them
NextSessions ==
    \/ _on_new_session
    \/ ai_tasks = {} /\ _on_send_message("hi", TRUE)
    \/ \E t \in ai_tasks : GetAIResponseStart(t, FALSE, TRUE)
    \/ \E t \in ai_tasks : GetAIResponseFinish(t, "answer", TRUE, TRUE)

SpecSessions == InitSessions /\ [][NextSessions]_vars

\* _build_messages called once, for every message, context and mode, on the
\* history build() has loaded from the store
NextRequest ==
    \E message \in {"hi", Question(Len(conversation_history) \div 2 + 1)},
       context \in Contexts, mode \in Modes :
       ChatCall(message, context, mode)

SpecRequest == InitStored /\ [][NextRequest]_vars

\* _gather_context called once, for every message, mode and state of the stores
InitContext ==
    /\ ChatInit /\ KnowledgeInit /\ collection_available = TRUE /\ EngineInit
    /\ \E user_message \in Queries, mode \in Modes, store \in Stores :
          gather_in = GatherInput(user_message, mode, store)
    /\ gather_out = NothingGathered
    /\ ProviderInit /\ StreamInit /\ SplitInit /\ AskInit

NextContext == GatherContext

SpecContext == InitContext /\ [][NextContext]_vars

\* the configuration as the YAML file may hold it at start, and the providers
\* AIEngine.__init__ sets up from it
InitConfigured ==
    /\ ChatInit /\ KnowledgeInit /\ collection_available = TRUE /\ EngineInit /\ ContextInit
    /\ StreamInit /\ SplitInit /\ AskInit
    /\ \E provider \in ConfigProviders, key \in ApiKeys : config_ai = AIConfig(provider, key)
    /\ providers = _setup_providers(config_ai)
    /\ task_call = [n \in 1..MaxTurns |-> NotCalled]
    /\ backend_calls = {}

\* The chat turn with its provider, while the settings are changed and saved;
\* the user may open a new session before the first message, and sends the next
\* message once the last one is answered
NextProvider ==
    \/ \E value \in ConfigProviders : SetCurrentProvider(value)
    \/ \E value \in SettingsProviders : _update_setting("ai.provider", value)
    \/ \E value \in ApiKeys : _update_setting("ai.deepseek_api_key", value)
    \/ _save_settings
    \/ ai_tasks = {} /\ _on_send_message("hi", TRUE)
    \/ \E t \in ai_tasks, outcome \in Outcomes : GetAIResponseCall(t, outcome)
    \/ \E t \in ai_tasks : GetAIResponseFinish(t, ResponseOf(t), TRUE, TRUE)
    \/ \E t \in ai_tasks : GetAIResponseFinishOld(t, ResponseOf(t), TRUE, TRUE)
    \/ turn_count = 0 /\ _on_new_session

SpecProvider == InitConfigured /\ [][NextProvider]_vars

\* AIEngine.chat_stream called stream after stream, read to the end or closed early
NextStream ==
    \/ \E outcome \in Outcomes, n \in 0..MaxFragments : StreamStart("hi", outcome, n)
    \/ StreamNext
    \/ StreamClose

SpecStream == InitConfigured /\ [][NextStream]_vars

\* _split_text called once, for every length of text and every chunk_size > overlap >= 0
InitSplit ==
    /\ ChatInit /\ KnowledgeInit /\ collection_available = TRUE /\ EngineInit /\ ContextInit
    /\ ProviderInit /\ StreamInit
    /\ \E n_words \in 0..MaxWords, chunk_size \in 1..MaxChunkSize :
          \E overlap \in 0..(chunk_size - 1) :
             split_in = SplitInput(n_words, chunk_size, overlap)
    /\ split_out = <<>>
    /\ AskInit

NextSplit == SplitText

SpecSplit == InitSplit /\ [][NextSplit]_vars

-----------------------------------------------------------------------------
(* Claims about the chat turn *)

\* the rows persisted under a session, in insertion order
Persisted(session_id) == SelectSeq(chat_history, LAMBDA r : r.session_id = session_id)

\* C1: when the response of a request issued in session A arrives while another
\* session is current, the assistant message is persisted under A and the
\* in-memory history (now the other session's) gains neither message of the turn.
C1_SwitchedResponseKeptOut ==
    [][\A t \in ai_tasks, response \in ResponseTexts :
          ( /\ GetAIResponseFinish(t, response, TRUE, TRUE)
            /\ current_session # t.session_id
            /\ conversation_history # <<>>
            /\ conversation_history =
                  load_history(get_chat_history(chat_history, current_session)) )
          => /\ chat_history' = Append(chat_history,
                    ChatRow(t.session_id, "assistant", response, current_provider, t.turn))
             /\ conversation_history' = conversation_history]_vars

\* C2: at most one request per session id is outstanding at any time.
C2_OneOutstandingPerSession ==
    \A t1, t2 \in ai_tasks : t1.session_id = t2.session_id => t1 = t2

\* C3: in the persisted sequence of every session, each user message is directly
\* followed by the assistant message of the same turn, before any message of a
\* later turn.
C3_TurnsNotInterleaved ==
    \A s \in {chat_history[i].session_id : i \in 1..Len(chat_history)} :
        LET rows == Persisted(s)
        IN \A i \in 1..(Len(rows) - 1) :
              rows[i].role = "user"
              => rows[i + 1].role = "assistant" /\ rows[i + 1].turn = rows[i].turn

\* C9: when the store write of the final assistant message fails, the user is
\* told of it: the layout shows the error message, or at least the error row is
\* persisted under the turn's session, whatever session is current.
C9_PersistFailureNoticed ==
    [][\A t \in ai_tasks, response \in ResponseTexts, err_ok \in BOOLEAN :
          GetAIResponseFinish(t, response, FALSE, err_ok)
          => \/ /\ layout_messages' # <<>>
                /\ Last(layout_messages') = HistoryEntry("assistant", ErrMsg)
             \/ /\ chat_history' # <<>>
                /\ Last(chat_history').content = ErrMsg
                /\ Last(chat_history').turn = t.turn]_vars

\* C11: after a session is selected, the in-memory history is exactly the
\* persisted messages of that session in ascending order and, when more than 50
\* are persisted, the most recent 50 of them.
C11_SelectLoadsMostRecent ==
    [][\A s \in {sessions_options[i] : i \in 1..Len(sessions_options)} :
          _on_session_select(s)
          => LET rows == Persisted(s)
                 n == Len(rows)
                 k == IF n > 50 THEN 50 ELSE n
             IN /\ Len(conversation_history') = k
                /\ \A i \in 1..k :
                      conversation_history'[i] =
                         HistoryEntry(rows[n - k + i].role, rows[n - k + i].content)]_vars

\* C17: with no session in the store, once a first new-session action has made
\* DD.MM.YYYY current and no send has been made, the id the next new-session
\* action generates on that date is DD.MM.YYYY.0.
C17_SecondIdHasSuffixZero ==
    ( /\ chat_history = <<>>
      /\ turn_count = 0
      /\ current_session = "06.11.2026" )
    => _generate_session_id(chat_history) = "06.11.2026.0"

\* C12: in every reachable state the in-memory history holds at most the replay
\* window of 20 messages.
C12_HistoryWithinReplayWindow == Len(conversation_history) <= 20

-----------------------------------------------------------------------------
(* Claims about the document pipeline *)

\* the text a processing task extracts in the current state
Extracted(t, extractor_ok) ==
    _extract_text(knowledge_dir, t.filepath, t.filetype, extractor_ok)

\* C4: a processing attempt on a document whose extracted text is empty ends
\* with the document in status failed with chunk count 0, not pending.
C4_EmptyTextEndsFailed ==
    [][\A t \in process_tasks, extractor_ok \in BOOLEAN :
          ( /\ _process_document(t, extractor_ok, TRUE, TRUE)
            /\ Extracted(t, extractor_ok) = EmptyText
            /\ t.doc_id \in DOMAIN knowledge_documents )
          => /\ DocStatus(knowledge_documents'[t.doc_id]) = "failed"
             /\ knowledge_documents'[t.doc_id].chunk_count = 0]_vars

\* C5: when add_texts or update_document raises during a processing attempt, the
\* document is moved from pending to failed with chunk count 0.
C5_CaughtExceptionEndsFailed ==
    [][\A t \in process_tasks, add_ok \in BOOLEAN, update_ok \in BOOLEAN :
          ( /\ _process_document(t, TRUE, add_ok, update_ok)
            /\ Extracted(t, TRUE) # EmptyText
            /\ (collection_available /\ ~add_ok) \/ ~update_ok
            /\ t.doc_id \in DOMAIN knowledge_documents )
          => /\ DocStatus(knowledge_documents'[t.doc_id]) = "failed"
             /\ knowledge_documents'[t.doc_id].chunk_count = 0]_vars

\* C6: with no processing task in flight, every chunk in the index belongs to a
\* document whose row exists (here: also in runs where no collaborator call has
\* raised, so that the interleaving alone decides).
C6_NoOrphanChunk ==
    (process_tasks = {} /\ ~fault_seen)
    => \A c \in collection : c.doc_id \in DOMAIN knowledge_documents

\* a delete of a listed document has just run
Deleted == last_delete.doc_id # 0 /\ last_delete.found

\* the call at position i of the last delete is an index delete of exactly the
\* ids doc_<id>_chunk_0 .. doc_<id>_chunk_(N-1)
IndexDeleteAt(i) ==
    /\ i \in 1..Len(last_delete.calls)
    /\ last_delete.calls[i].op = "index_delete"
    /\ last_delete.calls[i].arg =
          {ChunkId(last_delete.doc_id, n) : n \in 0..(last_delete.chunk_count - 1)}

RowDeleteAt(i) ==
    /\ i \in 1..Len(last_delete.calls)
    /\ last_delete.calls[i].op = "delete_row"

\* C7: deleting a document with stored chunk count N >= 1 issues an index delete
\* for exactly its N chunk ids, before the row is removed.
C7_IndexDeleteIssued ==
    (Deleted /\ last_delete.chunk_count >= 1 /\ ~fault_seen)
    => \E i, j \in 1..Len(last_delete.calls) :
          i < j /\ IndexDeleteAt(i) /\ RowDeleteAt(j)

\* what _on_delete does for a document get_documents lists: with the index
\* available and N >= 1, exactly one index delete is issued, for exactly the N
\* chunk ids, and before the row delete; with the index unavailable or N = 0 no
\* index delete is issued.
IndexDeleteOfListedDocument ==
    Deleted
    => LET index_calls == {i \in 1..Len(last_delete.calls) :
                              last_delete.calls[i].op = "index_delete"}
       IN IF collection_available /\ last_delete.chunk_count >= 1
          THEN /\ Cardinality(index_calls) = 1
               /\ \A i \in index_calls :
                     IndexDeleteAt(i) /\ \E j \in 1..Len(last_delete.calls) :
                                            i < j /\ RowDeleteAt(j)
          ELSE index_calls = {}

\* C8: in a deletion each of the three steps is attempted even when an earlier
\* one fails: the file removal (for a file that exists) and the row removal are
\* always among the calls.
C8_EveryStepAttempted ==
    Deleted
    => /\ \E j \in 1..Len(last_delete.calls) : RowDeleteAt(j)
       /\ last_delete.file_existed
          => \E i \in 1..Len(last_delete.calls) : last_delete.calls[i].op = "remove_file"

-----------------------------------------------------------------------------
(* Claims about the request *)

\* the messages of the request between the leading system messages and the
\* final user message
ReplayWindow ==
    LET n_system == Cardinality({i \in 1..Len(messages) :
                        \A j \in 1..i : messages[j].role = "system"})
    IN SubSeq(messages, n_system + 1, Len(messages) - 1)

\* C10: in every request built, the history messages between the system
\* message(s) and the current user message are at most 20, and they are the last
\* 20 entries of the in-memory history in their order.
C10_ReplayWindowBounded ==
    chat_pending # NoCall
    => LET h == conversation_history
           w == ReplayWindow
       IN /\ Len(w) <= 20
          /\ Len(w) = (IF Len(h) < 20 THEN Len(h) ELSE 20)
          /\ \A i \in 1..Len(w) : w[i] = h[Len(h) - Len(w) + i]
          /\ messages[1].role = "system"
          /\ Last(messages) = HistoryEntry("user", chat_pending)

C10_Witness ==
    /\ chat_pending # NoCall
    /\ Len(conversation_history) = 22
    /\ Len(ReplayWindow) = 20
    /\ ReplayWindow[1] = HistoryEntry("user", Question(2))

-----------------------------------------------------------------------------
(* Claims about the context *)

\* C14: in model_only mode the bundle is empty for every query and every content
\* of the stores, and no call to the structured store or the index is made.
C14_ModelOnlyGathersNothing ==
    (gather_in.called /\ gather_in.mode = "model_only")
    => gather_out.bundle = <<>> /\ gather_out.calls = <<>>

C14_Witness ==
    /\ gather_in.called
    /\ gather_in.mode = "model_only"
    /\ gather_in.user_message = "ab"
    /\ gather_in.store.todo = Outcome(FALSE, Rows("task", 2))
    /\ gather_in.store.notes = Outcome(FALSE, Rows("note", 1))
    /\ gather_in.store.vector_available
    /\ gather_out.calls = <<>>

\* C15: in hybrid mode the bundle holds the open tasks and the upcoming events
\* the store returns, at most 5 each, whenever any exist, whatever the query; in
\* knowledge mode it holds neither a tasks nor an events entry.
C15_HybridTasksAndEvents ==
    gather_in.called
    => LET b == gather_out.bundle
           st == gather_in.store
           first(rows) == [i \in 1..(IF Len(rows) > 5 THEN 5 ELSE Len(rows)) |-> rows[i]]
       IN /\ (gather_in.mode = "hybrid" /\ ~st.todo.raises /\ st.todo.rows # <<>>)
             => "tasks" \in DOMAIN b /\ b["tasks"] = first(st.todo.rows)
          /\ (gather_in.mode = "hybrid" /\ ~st.events.raises /\ st.events.rows # <<>>)
             => "events" \in DOMAIN b /\ b["events"] = first(st.events.rows)
          /\ gather_in.mode = "knowledge"
             => "tasks" \notin DOMAIN b /\ "events" \notin DOMAIN b

C15_Witness ==
    /\ gather_in.called
    /\ gather_in.mode = "hybrid"
    /\ gather_in.user_message = "a"
    /\ Len(gather_in.store.todo.rows) = 6
    /\ Len(gather_in.store.events.rows) = 1
    /\ "tasks" \in DOMAIN gather_out.bundle
    /\ Len(gather_out.bundle["tasks"]) = 5
    /\ DOMAIN gather_out.bundle = {"tasks", "events"}

\* C16: with a trimmed query of length at least 2, whichever of the notes
\* search, the tasks search and the index search raise, the bundle holds the
\* non-empty results of each one that did not raise, and _gather_context does
\* not raise.
C16_SearchesIndependent ==
    (gather_in.called /\ gather_in.mode # "model_only"
        /\ StripLen(gather_in.user_message) >= 2)
    => LET b == gather_out.bundle
           st == gather_in.store
       IN /\ ~gather_out.raised
          /\ (~st.notes.raises /\ st.notes.rows # <<>>)
             => "search_notes" \in DOMAIN b /\ b["search_notes"] = st.notes.rows
          /\ (~st.tasks.raises /\ st.tasks.rows # <<>>)
             => "search_tasks" \in DOMAIN b /\ b["search_tasks"] = st.tasks.rows
          /\ (st.vector_available /\ ~st.docs.raises /\ st.docs.rows # <<>>)
             => "search_docs" \in DOMAIN b /\ b["search_docs"] = st.docs.rows

C16_Witness ==
    /\ gather_in.called
    /\ gather_in.mode = "knowledge"
    /\ gather_in.user_message = " ab "
    /\ gather_in.store.notes.raises
    /\ gather_in.store.tasks = Outcome(FALSE, Rows("found", 1))
    /\ gather_in.store.vector_available
    /\ gather_in.store.docs = Outcome(FALSE, Rows("chunk", 1))
    /\ DOMAIN gather_out.bundle = {"search_tasks", "search_docs"}

-----------------------------------------------------------------------------
(* Claims about the providers and the stream *)

\* C13: chat_stream appends to the history exactly once and only at its natural
\* end: then the history gains the user message and one assistant message, the
\* concatenation of all fragments yielded, in order; while fragments are yielded
\* and when the consumer closes the stream early the history gains nothing, and
\* a closed stream yields no further fragment.
C13_StreamAppendsOnceAtEnd ==
    [][stream' # stream
       => /\ (stream'.pc = "ended" /\ stream'.has_provider)
             => conversation_history' =
                   conversation_history
                   \o <<HistoryEntry("user", stream'.message),
                        HistoryEntry("assistant", Join(stream'.yielded, ""))>>
          /\ stream'.pc \in {"open", "closed"}
             => conversation_history' = conversation_history
          /\ stream'.pc = "closed" => stream'.yielded = stream.yielded
          /\ stream.pc \in {"closed", "ended"}
             => Len(stream'.yielded) <= 1 /\ stream'.message = "hi"
                /\ (stream'.pc = "open" => Len(stream'.yielded) = 1)]_vars

C13_Witness ==
    /\ stream.pc = "closed"
    /\ Len(stream.script) = 3
    /\ Len(stream.yielded) = 2
    /\ Len(conversation_history) = 2
    /\ conversation_history[2] = HistoryEntry("assistant", "f1f2f3")

\* C18: get_provider returns the provider registered under the configured name
\* when that name is registered and otherwise the first registered provider,
\* never no provider; no name is registered twice.
C18_OneCurrentProvider ==
    LET p == get_provider(providers, config_ai)
        names == {providers[i].name : i \in 1..Len(providers)}
    IN /\ providers # <<>>
       /\ p # NoProvider
       /\ \E i \in 1..Len(providers) : providers[i] = p
       /\ config_ai.provider \in names => p.name = config_ai.provider
       /\ config_ai.provider \notin names => p = providers[1]
       /\ \A i, j \in 1..Len(providers) : providers[i].name = providers[j].name => i = j

C18_Witness ==
    /\ config_ai = AIConfig("deepseek", "")
    /\ Len(providers) = 2
    /\ backend_calls # {}
    /\ \E t \in ai_tasks : t.pc = "awaiting_old"

\* C19: when the backend call fails, the provider returns (and its stream
\* yields) an error text instead of raising, and the turn treats it as the
\* assistant message: it is persisted under the turn's session and appended to
\* the history of the engine that was called.
C19_BackendFailureInBand ==
    [][\A t \in ai_tasks :
          ( /\ t.pc \in {"awaiting", "awaiting_old"}
            /\ \A u \in ai_tasks' : u.turn # t.turn
            /\ task_call[t.turn].outcome \in {"import_error", "transport_error"} )
          => LET r == provider_chat(task_call[t.turn].provider, task_call[t.turn].outcome)
                 s == provider_chat_stream(task_call[t.turn].provider,
                                           task_call[t.turn].outcome, Fragments(2))
             IN /\ ~r.raised
                /\ r.content \in ErrorTexts
                /\ s # <<>> /\ s[Len(s)] \in ErrorTexts
                /\ Len(chat_history') = Len(chat_history) + 1
                /\ chat_history'[Len(chat_history')].session_id = t.session_id
                /\ chat_history'[Len(chat_history')].role = "assistant"
                /\ chat_history'[Len(chat_history')].content = r.content
                /\ t.pc = "awaiting"
                   => conversation_history' =
                         conversation_history
                         \o <<HistoryEntry("user", t.message),
                              HistoryEntry("assistant", r.content)>>]_vars

C19_Witness ==
    /\ chat_history # <<>>
    /\ chat_history[Len(chat_history)].content = "Ollama connection error: e"
    /\ chat_history[Len(chat_history)].session_id = "06.11.2026"
    /\ current_session = "06.11.2026"
    /\ conversation_history =
          <<HistoryEntry("user", "hi"), HistoryEntry("assistant", "Ollama connection error: e")>>

\* C20: when deepseek is the selected provider and no credential is configured,
\* the call of a turn gets the static explanatory message and attempts no
\* network call to any backend.
C20_MissingKeyShortCircuits ==
    [][\A t \in ai_tasks :
          ( /\ t.pc = "scheduled"
            /\ AiTask(t.turn, t.message, t.session_id, "awaiting") \in ai_tasks'
            /\ config_ai.provider = "deepseek"
            /\ config_ai.deepseek_api_key = "" )
          => /\ backend_calls' = backend_calls
             /\ provider_chat(task_call'[t.turn].provider, task_call'[t.turn].outcome).content
                   = "Error: DeepSeek API key is not configured. Set it in the settings."]_vars

-----------------------------------------------------------------------------
(* Claims about _split_text (SpecSplit) *)

\* the number of words of a chunk
ChunkLen(chunk) == chunk[2] - chunk[1]

\* the last n words of chunk a are the first n words of chunk b
SharesWords(a, b, n) ==
    /\ ChunkLen(a) >= n
    /\ ChunkLen(b) >= n
    /\ n > 0 => a[2] - n = b[1]

\* every pair of consecutive chunks but the one ending in the last chunk
\* overlaps by exactly overlap words
OverlapsThroughout ==
    \A i \in 1..(Len(split_out) - 2) :
        SharesWords(split_out[i], split_out[i + 1], split_in.overlap)

\* C21 as stated: for every text and every chunk_size > overlap >= 0 that give
\* at least two chunks, consecutive chunks overlap by exactly overlap words,
\* except possibly the pair ending in the last chunk
C21_ConsecutiveChunksOverlap ==
    (split_in.called /\ Len(split_out) >= 2) => OverlapsThroughout

\* C21 amended: the same, for an overlap of at most half the chunk size
C21_OverlapAtMostHalf ==
    (split_in.called /\ Len(split_out) >= 2 /\ 2 * split_in.overlap <= split_in.chunk_size)
        => OverlapsThroughout

\* a split into three chunks or more with a positive overlap of at most half
\* the chunk size
C21_Witness ==
    /\ split_in.called
    /\ Len(split_out) >= 3
    /\ split_in.overlap > 0
    /\ 2 * split_in.overlap <= split_in.chunk_size

\* ceil(a / b) for b > 0
CeilDiv(a, b) == (a + b - 1) \div b

Min(a, b) == IF a < b THEN a ELSE b

\* C30: for a text of W >= 1 words and chunk_size > overlap >= 0, _split_text
\* returns exactly ceil(W / (chunk_size - overlap)) chunks, chunk i holding the
\* words from i * (chunk_size - overlap) up to but excluding
\* min(W, i * (chunk_size - overlap) + chunk_size), so every word is in some
\* chunk; for a text with no words it returns the single chunk [text]
C30_ChunksCoverText ==
    split_in.called =>
        LET W == split_in.text.words
            step == split_in.chunk_size - split_in.overlap
        IN IF W >= 1
           THEN /\ Len(split_out) = CeilDiv(W, step)
                /\ \A i \in 0..(Len(split_out) - 1) :
                      split_out[i + 1] =
                          <<i * step, Min(W, i * step + split_in.chunk_size)>>
                /\ \A w \in 0..(W - 1) :
                      \E i \in 1..Len(split_out) :
                         split_out[i][1] <= w /\ w < split_out[i][2]
           ELSE split_out = <<<<0, 0>>>>

\* a text split into several chunks, the last one cut short by the end of the text
C30_Witness ==
    /\ split_in.called
    /\ Len(split_out) >= 3
    /\ ChunkLen(Last(split_out)) < split_in.chunk_size
    /\ split_in.overlap > 0

-----------------------------------------------------------------------------
(* Claims about the document pipeline, continued (SpecKnowledge) *)

\* the chunks of a document present in the index
IndexedChunks(index, doc_id) == {c \in index : c.doc_id = doc_id}

\* C22: a successful processing attempt on a document with non-empty text that
\* splits into n chunks upserts exactly the ids doc_<id>_chunk_0 ..
\* doc_<id>_chunk_(n-1) with metadata {doc_id, chunk_index = i}, then persists
\* chunk count n, the summary and status processed; the persisted chunk count
\* equals the number of chunks of the document present in the index.
C22_ProcessingIndexesAndPersists ==
    [][\A t \in process_tasks, extractor_ok \in BOOLEAN :
          ( /\ _process_document(t, extractor_ok, TRUE, TRUE)
            /\ Extracted(t, extractor_ok) # EmptyText )
          => LET text == Extracted(t, extractor_ok)
                 n == Len(_split_text(text, ChunkSize, Overlap))
             IN /\ IndexedChunks(collection', t.doc_id)
                      = {Chunk(t.doc_id, i) : i \in 0..(n - 1)}
                /\ collection' \ collection = IndexedChunks(collection', t.doc_id)
                /\ t.doc_id \in DOMAIN knowledge_documents'
                /\ knowledge_documents'[t.doc_id].chunk_count = n
                /\ knowledge_documents'[t.doc_id].summary = Summary(text)
                /\ DocStatus(knowledge_documents'[t.doc_id]) = "processed"
                /\ knowledge_documents'[t.doc_id].chunk_count
                      = Cardinality(IndexedChunks(collection', t.doc_id))]_vars

-----------------------------------------------------------------------------
(* Claims about the request, continued (SpecRequest) *)

\* the context messages that end with the knowledge-only instruction
InstructedContents ==
    {"User context:/" \o _format_context(c) \o KnowledgeOnlyInstruction : c \in Contexts}

\* the message is a context message that ends with the knowledge-only instruction
CarriesInstruction(m) == m.content \in InstructedContents

\* C23: in knowledge mode, whenever the formatted context is non-empty, the
\* context system message of the request carries the instruction restricting
\* the model to the supplied context; in hybrid and model_only modes no
\* message of the request carries it.
C23_InstructionOnlyInKnowledgeMode ==
    [][\A context \in Contexts, mode \in Modes :
          ChatCall(chat_pending', context, mode)
          => /\ (mode = "knowledge" /\ _format_context(context) # "")
                   => /\ messages'[2].role = "system"
                      /\ messages'[2].content =
                            "User context:/" \o _format_context(context)
                            \o KnowledgeOnlyInstruction
             /\ (mode # "knowledge")
                   => \A i \in 1..Len(messages') : ~CarriesInstruction(messages'[i])]_vars

\* a request built in knowledge mode on a conversation under way, whose context
\* message carries the instruction
C23_Witness ==
    /\ chat_pending # NoCall
    /\ Len(conversation_history) >= 2
    /\ Len(messages) >= 2
    /\ CarriesInstruction(messages[2])

-----------------------------------------------------------------------------
(* Claims about the sessions, continued *)

\* the id is among the sessions _load_sessions lists from the table
Listed(table, session_id) == Contains(_load_sessions(table), session_id)

\* C24: a session is created by the new-session action and never deleted
\* automatically: the id _on_new_session makes current is listed by
\* _load_sessions / get_chat_sessions from then on, also after the user
\* switches to another session before sending a message in it.
C24_NewSessionStaysListed ==
    [][ /\ _on_new_session => Listed(chat_history', current_session')
        /\ IsToday(current_session) => Listed(chat_history', current_session) ]_vars

\* the session ids persisted in the store
PersistedIds == {chat_history[i].session_id : i \in 1..Len(chat_history)}

\* the numbers n, -1 for the bare date, whose id DD.MM.YYYY[.n] is persisted
PersistedNumbers == {n \in {-1} \cup Suffixes : SessionName(n) \in PersistedIds}

\* the id the claim expects for the store as it is
ExpectedSessionId ==
    IF PersistedNumbers = {} THEN DateStr
    ELSE SessionName(SetMax(PersistedNumbers) + 1)

\* C25: for every set of persisted session ids, _generate_session_id returns
\* today's date string when no id of today is persisted, otherwise the date
\* string followed by '.' and max + 1 over today's suffixes, the bare date
\* counting as -1; the id returned is never a session id already persisted.
C25_GeneratedIdIsFresh ==
    [][_on_new_session
       => /\ current_session' = ExpectedSessionId
          /\ current_session' \notin PersistedIds]_vars

\* a new session has just been opened on a store that holds today's session
\* with suffix 1 but not the bare date
C25_Witness ==
    /\ current_session = SessionName(2)
    /\ SessionName(1) \in PersistedIds
    /\ DateStr \notin PersistedIds
    /\ OtherDay \in PersistedIds
    /\ layout_messages = <<>>

-----------------------------------------------------------------------------
(* Claims about the turn, continued (SpecTurns) *)

\* the rows of a role persisted for a turn, by their position in the table
RowsOfTurn(role, n) ==
    {i \in 1..Len(chat_history) : chat_history[i].turn = n /\ chat_history[i].role = role}

\* the turn has its user message persisted
Sent(n) == RowsOfTurn("user", n) # {}

\* the turn has exactly one assistant message persisted, the response or the
\* error message, under the session of its user message
Answered(n) ==
    /\ Cardinality(RowsOfTurn("assistant", n)) = 1
    /\ \A i \in RowsOfTurn("assistant", n), j \in RowsOfTurn("user", n) :
          chat_history[i].session_id = chat_history[j].session_id

\* C26: provided the provider call returns or raises and the store writes
\* succeed, every send eventually has exactly one assistant message persisted
\* for its turn, the response or one error message, never both and never
\* neither, under the session current at send time, whatever session switches
\* happen in between.
C26_EverySendAnsweredOnce ==
    /\ \A n \in 1..MaxTurns : Sent(n) ~> Answered(n)
    /\ [](\A n \in 1..MaxTurns :
            /\ Cardinality(RowsOfTurn("assistant", n)) <= 1
            /\ RowsOfTurn("assistant", n) # {} => Answered(n))

\* a turn answered under the session it was sent in while another session is current
C26_Witness ==
    \E n \in 1..MaxTurns :
        /\ Answered(n)
        /\ \A j \in RowsOfTurn("user", n) : chat_history[j].session_id # current_session
        /\ \A j \in RowsOfTurn("assistant", n) : chat_history[j].content = "answer"

-----------------------------------------------------------------------------
(* Claims about the questions to the knowledge base (SpecAsk) *)

\* a step of _answer_question: only it changes the pending prompt and the answer shown
AnswerStep == ask_pending' # ask_pending \/ layout_answer' # layout_answer

\* C27: answering a knowledge-base question leaves the chat state unchanged:
\* the in-memory conversation history of the current chat session and the
\* persisted chat messages are the same before and after.
C27_AnswerLeavesChatAlone ==
    [][AnswerStep => UNCHANGED <<conversation_history, chat_history>>]_vars

-----------------------------------------------------------------------------
(* Claims about the providers, continued (SpecProvider) *)

\* C28: the provider name stored with each persisted assistant message is the
\* name of the provider that produced the response, also when the configured
\* name is not registered and get_provider falls back to the first registered
\* provider.
C28_StoredProviderProducedResponse ==
    \A i \in 1..Len(chat_history) :
        (chat_history[i].role = "assistant" /\ chat_history[i].turn >= 1)
        => chat_history[i].provider = task_call[chat_history[i].turn].provider.name

-----------------------------------------------------------------------------
(* Claims about deletion, continued (SpecKnowledge) *)

\* C29: deleting a document removes only that document's storage: after
\* _on_delete(d) the stored file and the indexed chunks of every other document
\* whose row remains still exist, also when two documents were uploaded with
\* the same filename (here: in runs where no collaborator call has raised).
C29_DeleteSparesOtherDocuments ==
    [][(last_delete'.doc_id # 0 /\ ~fault_seen')
       => \A e \in DOMAIN knowledge_documents' \ {last_delete'.doc_id} :
             /\ PathExists(knowledge_dir, knowledge_documents'[e].filepath)
                   => PathExists(knowledge_dir', knowledge_documents'[e].filepath)
             /\ IndexedChunks(collection', e) = IndexedChunks(collection, e)]_vars
====
